---- MODULE Spec2Model ----
(***************************************************************************)
(* Model of xbstrap's vcs_utils.py: check_repo (the status evaluator) and  *)
(* fetch_repo (the fetch executor), together with the part of the world    *)
(* they read and write: the working copy of each source, the upstream      *)
(* repository, and the tools found on PATH.                                *)
(*                                                                         *)
(* A commit is a number 1..MaxCommit; 0 stands for Python's None (a ref    *)
(* that does not resolve).  fetch_repo is modelled statement by statement  *)
(* (each subprocess is one step), check_repo as one step (it only reads).  *)
(***************************************************************************)
EXTENDS Naturals, Sequences, FiniteSets

\* In the specifications with two callers, the calls made on one source.
MaxCalls == 2

\* Upstream commits are numbered 1..MaxCommit (the upstream tip only advances).
MaxCommit == 2

Sources == {"a", "b"}
Procs == {"p1", "p2"}
Tools == {"git", "hg", "svn"}

VARIABLES
    src,        \* src[s]: the descriptor: _this_yml (its keys), flags
    cfg,        \* cfg[s]: the commit pin record of s (fixed_commit set or not)
    path,       \* the tools shutil.which finds
    fs,         \* fs[s]: the working copy of s on disk
    upstream,   \* upstream[s]: the commit at the upstream ref of s
    call,       \* call[p]: the call process p is executing, and where it is
    hist        \* hist[s]: the last three completed calls on s

vars == <<src, cfg, path, fs, upstream, call, hist>>

----------------------------------------------------------------------------
\* Descriptors

GitYmls == {{"git", r} \cup c : r \in {"tag", "branch"}, c \in {{}, {"commit"}}}
HgYmls == {{"hg", r} : r \in {"tag", "branch"}}

\* The descriptors that satisfy the shape invariant.
Descriptors ==
    [yml : GitYmls, disable_shallow_fetch : BOOLEAN, is_rolling_version : BOOLEAN]
    \cup [yml : HgYmls \cup {{"svn"}, {"url"}},
          disable_shallow_fetch : {FALSE}, is_rolling_version : {FALSE}]

\* The if/elif chain of check_repo and fetch_repo over the descriptor's keys.
Origin(y) ==
    IF "git" \in y THEN "git"
    ELSE IF "hg" \in y THEN "hg"
    ELSE IF "svn" \in y THEN "svn"
    ELSE "url"

NoDir == [source_dir |-> FALSE, git_init |-> FALSE, origin |-> FALSE,
          tracking |-> 0, content |-> "empty", source_archive_file |-> "absent"]

Idle == [pc |-> "idle", s |-> "a", init |-> FALSE, dir |-> FALSE, cmds |-> <<>>]

----------------------------------------------------------------------------
\* History of completed calls

\* hist[s] holds the last three completed calls on s, the oldest first.  The
\* field won of a call says whether some fetch_repo call on s has succeeded by
\* the time the call ends (this call included).
Push(h, e) ==
    LET ev == [e EXCEPT !.won = @ \/ (Len(h) > 0 /\ h[Len(h)].won)]
    IN  IF Len(h) < 3 THEN Append(h, ev) ELSE Append(Tail(h), ev)

\* A completed check_repo call: its remote-check level, the status returned
\* (or the exception raised), whether ls-remote was run and the commit it gave
\* (0: none), and what the call saw: source_dir, the tracking ref, the upstream.
EvalEvent(s, check_remotes, r) ==
    [op |-> "check_repo", level |-> check_remotes, res |-> r.status,
     queried |-> r.queried, remote |-> r.remote, dir |-> fs[s].source_dir,
     init |-> FALSE, cmds |-> <<>>, ref |-> fs[s].tracking, up |-> upstream[s],
     won |-> FALSE]

\* A completed fetch_repo call: how it ended, whether source_dir existed when
\* it started, its init flag, the commands it ran, the tracking ref it left.
FetchEvent(c, res, cmds, f) ==
    [op |-> "fetch_repo", level |-> 0, res |-> res, queried |-> FALSE,
     remote |-> 0, dir |-> c.dir, init |-> c.init, cmds |-> cmds, ref |-> f.tracking,
     up |-> upstream[c.s], won |-> res = "OK"]

Cmd(name) == [cmd |-> name, depth |-> FALSE, refspec |-> "", from |-> ""]

----------------------------------------------------------------------------
\* check_repo

\* Mutant: show-ref is asked for refs/heads/<branch>, which fetch_repo never
\* writes, so the ref never resolves.
get_local_commit_WrongRef(s) == 0

\* Mutant: the local commit is the repository's existence, not the tracking
\* ref: show-ref succeeds as soon as git init has run.
get_local_commit_RepoOnly(s) == IF fs[s].git_init THEN 1 ELSE 0

\* git show-ref --verify <tracking_ref> in source_dir: None (0) if it fails.
get_local_commit(s) == IF fs[s].git_init THEN fs[s].tracking ELSE 0

\* git ls-remote --exit-code <url> <ref>: None (0) if the subprocess fails.
get_remote_commit(s, remote_ok) == IF remote_ok THEN upstream[s] ELSE 0

\* Mutant: tags are checked remotely from level 1 on, like branches.
do_check_remote_AnyRef(y, check_remotes) == check_remotes >= 1

do_check_remote(y, check_remotes) ==
    \/ check_remotes >= 2
    \/ check_remotes >= 1 /\ "tag" \notin y

\* The comparison of local and remote commit that makes a source OUTDATED.
IsOutdated(local_commit, remote_commit) == local_commit # remote_commit

\* A result of check_repo that made no remote query.
Local(status) == [status |-> status, queried |-> FALSE, remote |-> 0]

check_repo_git(s, check_remotes, sub_ok) ==
    LET y == src[s].yml
        local_commit == get_local_commit(s)
        remote_commit == get_remote_commit(s, sub_ok)
    IN  IF ~fs[s].source_dir THEN Local("MISSING")
        ELSE IF "tag" \notin y /\ "branch" \notin y THEN Local("KeyError")
        ELSE IF "git" \notin path THEN Local("FileNotFoundError")
        ELSE IF local_commit = 0 THEN Local("MISSING")
        ELSE IF do_check_remote(y, check_remotes)
        THEN [status |-> IF IsOutdated(local_commit, remote_commit)
                         THEN "OUTDATED" ELSE "GOOD",
              queried |-> TRUE, remote |-> remote_commit]
        ELSE Local("GOOD")

\* hg manifest -r <rev> exits 0 only in a directory that holds a clone.
check_repo_hg(s, sub_ok) ==
    LET y == src[s].yml
    IN  IF ~fs[s].source_dir THEN "MISSING"
        ELSE IF "tag" \notin y /\ "branch" \notin y THEN "KeyError"
        ELSE IF "hg" \notin path THEN "FileNotFoundError"
        ELSE IF ~(sub_ok /\ fs[s].content # "empty") THEN "MISSING"
        ELSE "GOOD"

\* Mutant: the isdir test of the svn branch is dropped.
check_repo_svn_NoDirTest(s) == "GOOD"

check_repo_svn(s) == IF ~fs[s].source_dir THEN "MISSING" ELSE "GOOD"

\* Mutant: the archive branch tests source_dir, like the svn branch.
check_repo_url_TestsDir(s) == IF ~fs[s].source_dir THEN "MISSING" ELSE "GOOD"

check_repo_url(s) ==
    IF "url" \notin src[s].yml THEN "AssertionError"
    ELSE IF fs[s].source_archive_file = "absent" THEN "MISSING"
    ELSE "GOOD"

\* check_repo(src, check_remotes): the status it returns (or the exception it
\* raises) and whether it ran a remote query.  sub_ok is the outcome of the one
\* subprocess whose result the working copy does not determine (ls-remote, hg
\* manifest in a non-empty directory).
check_repo(s, check_remotes, sub_ok) ==
    LET o == Origin(src[s].yml)
    IN  IF o = "git" THEN check_repo_git(s, check_remotes, sub_ok)
        ELSE IF o = "hg" THEN Local(check_repo_hg(s, sub_ok))
        ELSE IF o = "svn" THEN Local(check_repo_svn(s))
        ELSE Local(check_repo_url(s))

\* Mutant: the remote check fetches: the tracking ref is moved to the commit
\* the remote reported.
Evaluate_Fetches(p, s, check_remotes, sub_ok) ==
    LET r == check_repo(s, check_remotes, sub_ok)
    IN  /\ call[p].pc = "idle"
        /\ hist' = [hist EXCEPT ![s] = Push(@, EvalEvent(s, check_remotes, r))]
        /\ fs' = [fs EXCEPT ![s].tracking = IF r.remote # 0 THEN r.remote ELSE @]
        /\ UNCHANGED <<src, cfg, path, upstream, call>>

Evaluate(p, s, check_remotes, sub_ok) ==
    /\ call[p].pc = "idle"
    /\ hist' = [hist EXCEPT ![s] =
                   Push(@, EvalEvent(s, check_remotes, check_repo(s, check_remotes, sub_ok)))]
    /\ UNCHANGED <<src, cfg, path, fs, upstream, call>>

----------------------------------------------------------------------------
\* fetch_repo

\* Mutant: a failed call removes the working copy it was working on.
Finish_Cleanup(p, res, cmds, f) ==
    LET c == call[p]
        g == IF res = "OK" THEN f ELSE NoDir
    IN  /\ fs' = [fs EXCEPT ![c.s] = g]
        /\ hist' = [hist EXCEPT ![c.s] = Push(@, FetchEvent(c, res, cmds, g))]
        /\ call' = [call EXCEPT ![p] = Idle]

\* Mutant: the callers share one working directory (the process's cwd), so
\* what a call leaves behind shows in every source.
Finish_SharedCwd(p, res, cmds, f) ==
    LET c == call[p]
    IN  /\ fs' = [s \in Sources |-> f]
        /\ hist' = [hist EXCEPT ![c.s] = Push(@, FetchEvent(c, res, cmds, f))]
        /\ call' = [call EXCEPT ![p] = Idle]

\* Ends the call of p: the exception (or "OK"), the commands run, the working
\* copy left behind.
Finish(p, res, cmds, f) ==
    LET c == call[p]
    IN  /\ fs' = [fs EXCEPT ![c.s] = f]
        /\ hist' = [hist EXCEPT ![c.s] = Push(@, FetchEvent(c, res, cmds, f))]
        /\ call' = [call EXCEPT ![p] = Idle]

\* Goes on to the next statement of the call of p.
Goto(p, pc, cmds, f) ==
    /\ fs' = [fs EXCEPT ![call[p].s] = f]
    /\ call' = [call EXCEPT ![p].pc = pc, ![p].cmds = cmds]
    /\ UNCHANGED hist

\* Mutant: every call initializes.
InitFlag_Always(s) == TRUE

\* init = not os.path.isdir(src.source_dir)
InitFlag(s) == ~fs[s].source_dir

\* Mutant: is_rolling_version is not looked at.
Shallow_IgnoreRolling(s) == ~src[s].disable_shallow_fetch

\* shallow = not source.get('disable_shallow_fetch', False), and False for a
\* rolling version.
Shallow(s) ==
    IF src[s].is_rolling_version THEN FALSE ELSE ~src[s].disable_shallow_fetch

\* Mutants: only one of the two pins is looked at.
BranchShallow_FixedOnly(s) == IF cfg[s].fixed_commit THEN FALSE ELSE Shallow(s)
BranchShallow_CommitOnly(s) == IF "commit" \in src[s].yml THEN FALSE ELSE Shallow(s)

\* if 'commit' in source or fixed_commit is not None: shallow = False
BranchShallow(s) ==
    IF "commit" \in src[s].yml \/ cfg[s].fixed_commit THEN FALSE ELSE Shallow(s)

\* Mutant: a tag fetch is shallow on the first fetch only, like a branch.
Depth_TagInitOnly(s, init) ==
    init /\ (IF "tag" \in src[s].yml THEN Shallow(s) ELSE BranchShallow(s))

\* Mutant: a branch fetch is shallow on updates too.
Depth_IgnoreInit(s, init) ==
    IF "tag" \in src[s].yml THEN Shallow(s) ELSE BranchShallow(s)

\* Whether --depth=1 is appended to the arguments of git fetch.
Depth(s, init) ==
    IF "tag" \in src[s].yml THEN Shallow(s) ELSE init /\ BranchShallow(s)

\* The git fetch command line: both kinds of ref are fetched from the URL.
FetchCmd(s, init) ==
    [cmd |-> "git fetch", depth |-> Depth(s, init), from |-> "url",
     refspec |-> IF "tag" \in src[s].yml THEN "tag"
                 ELSE "refs/heads:refs/remotes/origin"]

\* Mutant: a call waits until no other call works on the same source.
CanBegin_Locked(p, s) ==
    /\ call[p].pc = "idle"
    /\ \A q \in Procs : call[q].pc = "idle" \/ call[q].s # s

\* fetch_repo is entered by a caller that is not inside a call; it takes no
\* lock on source_dir.
CanBegin(p, s) == call[p].pc = "idle"

\* Mutant: the result of shutil.which is not tested.
ToolMissing_Unchecked(s) == FALSE

\* shutil.which(tool) is None, for the tool of the origin (none for an archive).
ToolMissing(s) ==
    LET o == Origin(src[s].yml) IN o # "url" /\ o \notin path

\* Lines 84-93 (git), 125-128 (hg), 132-135 (svn), 139-140 (archive): the
\* dispatch on the origin, the lookup of the tool, the pin and the init flag.
BeginFetch(p, s) ==
    LET o == Origin(src[s].yml)
        c == [pc |-> "begin", s |-> s, init |-> o = "git" /\ InitFlag(s),
              dir |-> fs[s].source_dir, cmds |-> <<>>]
    IN  /\ CanBegin(p, s)
        /\ IF ToolMissing(s)
           THEN \* raise GenericException: the name is not defined in the module
                /\ hist' = [hist EXCEPT ![s] = Push(@, FetchEvent(c, "NameError", <<>>, fs[s]))]
                /\ UNCHANGED <<fs, call>>
           ELSE IF o = "url" /\ "url" \notin src[s].yml
           THEN /\ hist' = [hist EXCEPT ![s] = Push(@, FetchEvent(c, "AssertionError", <<>>, fs[s]))]
                /\ UNCHANGED <<fs, call>>
           ELSE /\ call' = [call EXCEPT ![p] =
                               [c EXCEPT !.pc = IF o = "git" /\ ~c.init
                                                THEN "transfer" ELSE "mkdir"]]
                /\ UNCHANGED <<fs, hist>>
        /\ UNCHANGED <<src, cfg, path, upstream>>

\* _util.try_mkdir: the directory exists afterwards.
try_mkdir(f) == [f EXCEPT !.source_dir = TRUE]

\* _util.try_mkdir(src.source_dir): an existing directory is accepted; creating
\* one can fail.
TryMkdir(p, ok) ==
    LET c == call[p]
        f == fs[c.s]
    IN  /\ c.pc = "mkdir"
        /\ ok \/ ~f.source_dir
        /\ IF ok
           THEN Goto(p, IF Origin(src[c.s].yml) = "git" THEN "git_init" ELSE "transfer",
                     Append(c.cmds, Cmd("mkdir")), try_mkdir(f))
           ELSE Finish(p, "OSError", c.cmds, f)
        /\ UNCHANGED <<src, cfg, path, upstream>>

\* subprocess.check_call([git, 'init'], cwd=src.source_dir)
GitInit(p, ok) ==
    LET c == call[p]
        f == fs[c.s]
    IN  /\ c.pc = "git_init"
        /\ ok => f.source_dir
        /\ IF ok
           THEN Goto(p, "remote_add", Append(c.cmds, Cmd("git init")),
                     [f EXCEPT !.git_init = TRUE])
           ELSE Finish(p, "CalledProcessError", Append(c.cmds, Cmd("git init")), f)
        /\ UNCHANGED <<src, cfg, path, upstream>>

\* subprocess.check_call([git, 'remote', 'add', 'origin', url], cwd=src.source_dir):
\* git refuses to add a remote that exists.
GitRemoteAdd(p, ok) ==
    LET c == call[p]
        f == fs[c.s]
        cmds == Append(c.cmds, Cmd("git remote add origin"))
    IN  /\ c.pc = "remote_add"
        /\ ok => f.git_init /\ ~f.origin
        /\ IF ok
           THEN Goto(p, "transfer", cmds, [f EXCEPT !.origin = TRUE])
           ELSE Finish(p, "CalledProcessError", cmds, f)
        /\ UNCHANGED <<src, cfg, path, upstream>>

\* Lines 100-124: the shallow flag, the arguments, and git fetch itself, which
\* on success leaves the tracking ref at the upstream commit.
GitFetch(p, ok) ==
    LET c == call[p]
        f == fs[c.s]
        y == src[c.s].yml
        cmds == Append(c.cmds, FetchCmd(c.s, c.init))
    IN  /\ c.pc = "transfer"
        /\ Origin(y) = "git"
        /\ ok => f.git_init
        /\ IF "tag" \notin y /\ "branch" \notin y
           THEN Finish(p, "KeyError", c.cmds, f)
           ELSE IF ok
           THEN Finish(p, "OK", cmds, [f EXCEPT !.tracking = upstream[c.s]])
           ELSE Finish(p, "CalledProcessError", cmds, f)
        /\ UNCHANGED <<src, cfg, path, upstream>>

\* What a clone or a checkout leaves in source_dir.
Content(f, out) ==
    IF out = "ok" THEN "full"
    ELSE IF out = "partial" /\ f.content = "empty" THEN "partial"
    ELSE f.content

\* subprocess.check_call([hg, 'clone', url, src.source_dir]): hg refuses to
\* clone into a directory that is not empty.
HgClone(p, out) ==
    LET c == call[p]
        f == fs[c.s]
        cmds == Append(c.cmds, Cmd("hg clone"))
    IN  /\ c.pc = "transfer"
        /\ Origin(src[c.s].yml) = "hg"
        /\ out = "ok" => f.content = "empty"
        /\ Finish(p, IF out = "ok" THEN "OK" ELSE "CalledProcessError", cmds,
                  [f EXCEPT !.content = Content(f, out)])
        /\ UNCHANGED <<src, cfg, path, upstream>>

\* subprocess.check_call([svn, 'co', url, src.source_dir])
SvnCheckout(p, out) ==
    LET c == call[p]
        f == fs[c.s]
        cmds == Append(c.cmds, Cmd("svn co"))
    IN  /\ c.pc = "transfer"
        /\ Origin(src[c.s].yml) = "svn"
        /\ Finish(p, IF out = "ok" THEN "OK" ELSE "CalledProcessError", cmds,
                  [f EXCEPT !.content = Content(f, out)])
        /\ UNCHANGED <<src, cfg, path, upstream>>

\* What the download leaves at source_archive_file: open(.., 'wb') truncates
\* the file before the body is copied; a failing urlopen leaves it alone.
ArchiveFile(f, out) ==
    IF out = "ok" THEN "full"
    ELSE IF out = "partial" THEN "partial"
    ELSE f.source_archive_file

\* Lines 143-145: urlopen, open, copyfileobj.
Download(p, out) ==
    LET c == call[p]
        f == fs[c.s]
        cmds == Append(c.cmds, Cmd("urlopen"))
    IN  /\ c.pc = "transfer"
        /\ Origin(src[c.s].yml) = "url"
        /\ Finish(p, IF out = "ok" THEN "OK" ELSE "URLError", cmds,
                  [f EXCEPT !.source_archive_file = ArchiveFile(f, out)])
        /\ UNCHANGED <<src, cfg, path, upstream>>

\* The upstream ref of a git source moves to a new commit.
UpstreamAdvance(s) ==
    /\ Origin(src[s].yml) = "git"
    /\ upstream[s] < MaxCommit
    /\ upstream' = [upstream EXCEPT ![s] = @ + 1]
    /\ UNCHANGED <<src, cfg, path, fs, call, hist>>

----------------------------------------------------------------------------
\* Specifications

Outcomes == {"ok", "fail", "partial"}

\* The tool a descriptor needs, if any.
Needed(d) == IF Origin(d.yml) = "url" THEN {} ELSE {Origin(d.yml)}

TypeOK ==
    /\ \A s \in Sources : fs[s].tracking \in 0..MaxCommit /\ Len(hist[s]) <= 3
    /\ \A p \in Procs : call[p].pc \in {"idle", "mkdir", "git_init", "remote_add", "transfer"}

\* One caller, one source: the calls on a source come one after another.
Init ==
    /\ \E d \in Descriptors :
          /\ src = [s \in Sources |-> IF s = "a" THEN d
                                      ELSE [yml |-> {"url"}, disable_shallow_fetch |-> FALSE,
                                            is_rolling_version |-> FALSE]]
          /\ path \in {Tools, Tools \ Needed(d)}
          /\ \E fc \in (IF Origin(d.yml) = "git" THEN BOOLEAN ELSE {FALSE}) :
                cfg = [s \in Sources |-> [fixed_commit |-> s = "a" /\ fc]]
    /\ fs = [s \in Sources |-> NoDir]
    /\ upstream = [s \in Sources |-> 1]
    /\ call = [p \in Procs |-> Idle]
    /\ hist = [s \in Sources |-> <<>>]

Step(p, s) ==
    \/ \E l \in 0..2, ok \in BOOLEAN : Evaluate(p, s, l, ok)
    \/ BeginFetch(p, s)
    \/ \E ok \in BOOLEAN : TryMkdir(p, ok)
    \/ \E ok \in BOOLEAN : GitInit(p, ok)
    \/ \E ok \in BOOLEAN : GitRemoteAdd(p, ok)
    \/ \E ok \in BOOLEAN : GitFetch(p, ok)
    \/ \E out \in Outcomes : HgClone(p, out)
    \/ \E out \in Outcomes : SvnCheckout(p, out)
    \/ \E out \in Outcomes : Download(p, out)
    \/ UpstreamAdvance(s)

Next == Step("p1", "a")

Spec == Init /\ [][Next]_vars

\* Descriptors that break the shape invariant: two origin keys, none, or a
\* git / hg origin with both or neither of tag and branch.
ShapeYmls ==
    {{"git", "hg", "branch"}, {"svn", "url"}, {},
     {"git"}, {"git", "tag", "branch"}, {"hg"}, {"hg", "tag", "branch"}}

InitShape ==
    /\ \E y \in ShapeYmls :
          src = [s \in Sources |->
                    [yml |-> IF s = "a" THEN y ELSE {"url"},
                     disable_shallow_fetch |-> FALSE, is_rolling_version |-> FALSE]]
    /\ path = Tools
    /\ cfg = [s \in Sources |-> [fixed_commit |-> FALSE]]
    /\ fs = [s \in Sources |-> NoDir]
    /\ upstream = [s \in Sources |-> 1]
    /\ call = [p \in Procs |-> Idle]
    /\ hist = [s \in Sources |-> <<>>]

\* No such descriptor reaches the download: its archive arm asserts 'url'.
NextShape ==
    \/ \E l \in 0..2, ok \in BOOLEAN : Evaluate("p1", "a", l, ok)
    \/ BeginFetch("p1", "a")
    \/ \E ok \in BOOLEAN : TryMkdir("p1", ok)
    \/ \E ok \in BOOLEAN : GitInit("p1", ok)
    \/ \E ok \in BOOLEAN : GitRemoteAdd("p1", ok)
    \/ \E ok \in BOOLEAN : GitFetch("p1", ok)
    \/ \E out \in Outcomes : HgClone("p1", out)
    \/ \E out \in Outcomes : SvnCheckout("p1", out)
    \/ UpstreamAdvance("a")

\* The calls on a source whose descriptor breaks the shape invariant.
SpecShape == InitShape /\ [][NextShape]_vars

Flags(y) == [yml |-> y, disable_shallow_fetch |-> FALSE, is_rolling_version |-> FALSE]

\* Two callers at once, each on a source of its own: p1 on "a", p2 on "b".
\* check_repo is called without a remote check and with the full one.
InitConc ==
    /\ \E ya \in {{"git", "branch"}, {"hg", "tag"}}, yb \in {{"svn"}, {"url"}} :
          src = [s \in Sources |-> IF s = "a" THEN Flags(ya) ELSE Flags(yb)]
    /\ path = Tools
    /\ cfg = [s \in Sources |-> [fixed_commit |-> FALSE]]
    /\ fs = [s \in Sources |-> NoDir]
    /\ upstream = [s \in Sources |-> 1]
    /\ call = [p \in Procs |-> Idle]
    /\ hist = [s \in Sources |-> <<>>]

\* The callers have calls left: at most MaxCalls calls have completed so far,
\* over the two sources.
Budget(s) == Len(hist["a"]) + Len(hist["b"]) <= MaxCalls

NextConc ==
    \E pr \in {<<"p1", "a">>, <<"p2", "b">>} :
        LET p == pr[1]
            s == pr[2]
        IN  \/ \E l \in {0, 2}, ok \in BOOLEAN : Budget(s) /\ Evaluate(p, s, l, ok)
            \/ Budget(s) /\ BeginFetch(p, s)
            \/ \E ok \in BOOLEAN : call[p].s = s /\ TryMkdir(p, ok)
            \/ \E ok \in BOOLEAN : call[p].s = s /\ GitInit(p, ok)
            \/ \E ok \in BOOLEAN : call[p].s = s /\ GitRemoteAdd(p, ok)
            \/ \E ok \in BOOLEAN : call[p].s = s /\ GitFetch(p, ok)
            \/ \E out \in Outcomes : call[p].s = s /\ HgClone(p, out)
            \/ \E out \in Outcomes : call[p].s = s /\ SvnCheckout(p, out)
            \/ \E out \in Outcomes : call[p].s = s /\ Download(p, out)
            \/ Budget(s) /\ UpstreamAdvance(s)

SpecConc == InitConc /\ [][NextConc]_vars

\* Two callers at once on the same git source "a".
InitRace ==
    /\ \E ya \in {{"git", "branch"}, {"git", "tag"}} :
          src = [s \in Sources |-> Flags(IF s = "a" THEN ya ELSE {"svn"})]
    /\ path = Tools
    /\ cfg = [s \in Sources |-> [fixed_commit |-> FALSE]]
    /\ fs = [s \in Sources |-> NoDir]
    /\ upstream = [s \in Sources |-> 1]
    /\ call = [p \in Procs |-> Idle]
    /\ hist = [s \in Sources |-> <<>>]

NextRace ==
    \E p \in Procs :
        \/ \E l \in 0..2, ok \in BOOLEAN : Budget("a") /\ Evaluate(p, "a", l, ok)
        \/ Budget("a") /\ BeginFetch(p, "a")
        \/ \E ok \in BOOLEAN : TryMkdir(p, ok)
        \/ \E ok \in BOOLEAN : GitInit(p, ok)
        \/ \E ok \in BOOLEAN : GitRemoteAdd(p, ok)
        \/ \E ok \in BOOLEAN : GitFetch(p, ok)
        \/ Budget("a") /\ UpstreamAdvance("a")

SpecRace == InitRace /\ [][NextRace]_vars

----------------------------------------------------------------------------
\* The claims, stated of source "a" and of the calls recorded in its history.

H == hist["a"]
D == src["a"]

IsGit == Origin(D.yml) = "git"
IsBranch == IsGit /\ "tag" \notin D.yml /\ "branch" \in D.yml
IsTag == IsGit /\ "tag" \in D.yml
Pinned == cfg["a"].fixed_commit \/ "commit" \in D.yml

IsEval(e) == e.op = "check_repo"
IsFetch(e) == e.op = "fetch_repo"

\* The git fetch commands a call ran, and whether one of them had --depth=1.
Fetches(e) == {i \in 1..Len(e.cmds) : e.cmds[i].cmd = "git fetch"}
PassedDepth(e) == \E i \in Fetches(e) : e.cmds[i].depth
Ran(e, name) == \E i \in 1..Len(e.cmds) : e.cmds[i].cmd = name

\* A fetch call that found no source_dir and succeeded.
FirstFetch(e) == IsFetch(e) /\ ~e.dir /\ e.res = "OK"

\* The descriptor of the first scenario: a branch, not rolling, shallow fetch
\* not disabled, no commit pinned.
PlainBranch ==
    IsBranch /\ ~D.is_rolling_version /\ ~D.disable_shallow_fetch /\ ~Pinned

InitialShallowFetch ==
    <<Cmd("mkdir"), Cmd("git init"), Cmd("git remote add origin"),
      [cmd |-> "git fetch", depth |-> TRUE, from |-> "url",
       refspec |-> "refs/heads:refs/remotes/origin"]>>

\* C1: for a plain git branch source, check_repo on an absent source_dir
\* returns MISSING; a successful fetch_repo from an absent source_dir runs
\* exactly mkdir, git init, git remote add origin, git fetch --depth=1, in
\* that order; and a check_repo at level 0 right after it returns GOOD.
C1_FirstFetchScenario ==
    PlainBranch =>
        \A i \in 1..Len(H) :
            /\ IsEval(H[i]) /\ ~H[i].dir => H[i].res = "MISSING"
            /\ FirstFetch(H[i]) => H[i].cmds = InitialShallowFetch
            /\ (/\ i < Len(H)
                /\ FirstFetch(H[i])
                /\ IsEval(H[i + 1])
                /\ H[i + 1].level = 0) => H[i + 1].res = "GOOD"

C1_Witness ==
    /\ PlainBranch
    /\ Len(H) = 3
    /\ IsEval(H[1]) /\ ~H[1].dir /\ H[1].res = "MISSING"
    /\ FirstFetch(H[2]) /\ H[2].cmds = InitialShallowFetch
    /\ IsEval(H[3]) /\ H[3].level = 0 /\ H[3].res = "GOOD"

\* A check_repo call at level 1 on a working copy whose tracking ref resolves
\* and is behind the upstream.
Stale(e) == IsEval(e) /\ e.level = 1 /\ e.ref # 0 /\ e.ref # e.up

\* C2: for a git branch source with a populated source_dir whose upstream has
\* advanced, check_repo at level 1 returns OUTDATED; a successful fetch_repo
\* then leaves the tracking ref at the upstream commit and passes no --depth;
\* and the next check_repo at level 1, the upstream unchanged, returns GOOD.
C2_IncrementalScenario ==
    IsBranch =>
        \A i \in 1..Len(H) :
            /\ Stale(H[i]) => H[i].res = "OUTDATED"
            /\ (IsFetch(H[i]) /\ H[i].dir /\ H[i].res = "OK") =>
                   H[i].ref = H[i].up /\ ~PassedDepth(H[i])
            /\ (/\ i + 2 <= Len(H)
                /\ Stale(H[i])
                /\ IsFetch(H[i + 1]) /\ H[i + 1].res = "OK"
                /\ IsEval(H[i + 2]) /\ H[i + 2].level = 1
                /\ H[i + 2].up = H[i + 1].up) => H[i + 2].res = "GOOD"

\* C3: when check_repo on a git source makes a remote query and the query
\* fails, it returns GOOD.
C3_FailedQueryIsGood ==
    IsGit =>
        \A i \in 1..Len(H) :
            (IsEval(H[i]) /\ H[i].queried /\ H[i].remote = 0) => H[i].res = "GOOD"

C5_RemoteQueryLevels ==
    IsGit =>
        /\ \A i \in 1..Len(H) :
               IsEval(H[i]) =>
                   /\ H[i].queried <=>
                          /\ H[i].ref # 0
                          /\ \/ H[i].level >= 2
                             \/ H[i].level >= 1 /\ IsBranch
                   /\ IsBranch /\ H[i].level = 0 =>
                          ~H[i].queried /\ H[i].res # "OUTDATED"
        /\ IsTag => \A ok \in BOOLEAN : check_repo("a", 1, ok) = check_repo("a", 0, ok)

C5_Witness ==
    /\ IsBranch
    /\ Len(H) >= 2
    /\ IsEval(H[Len(H)]) /\ H[Len(H)].level = 0
    /\ H[Len(H)].ref # 0 /\ H[Len(H)].ref # H[Len(H)].up
    /\ H[Len(H)].res = "GOOD"
    /\ IsEval(H[Len(H) - 1]) /\ H[Len(H) - 1].level = 1 /\ H[Len(H) - 1].queried

\* C6 as stated: --depth=1 is passed only for a git origin with
\* disable_shallow_fetch false, is_rolling_version false, no fixed_commit in
\* the pin record and no commit in the descriptor, for tags and branches alike.
C6_DepthOnlyWhenUnpinned ==
    \A i \in 1..Len(H) :
        IsFetch(H[i]) /\ PassedDepth(H[i]) =>
            /\ IsGit
            /\ ~D.disable_shallow_fetch
            /\ ~D.is_rolling_version
            /\ ~cfg["a"].fixed_commit
            /\ "commit" \notin D.yml

\* C6 (amended): --depth=1 is passed only for a git origin with
\* disable_shallow_fetch false and is_rolling_version false and, when the ref
\* is a branch, no fixed_commit in the pin record and no commit in the
\* descriptor; the pin does not keep a tag fetch from being shallow.
C6_DepthOnlyWhenShallowAllowed ==
    \A i \in 1..Len(H) :
        IsFetch(H[i]) /\ PassedDepth(H[i]) =>
            /\ IsGit
            /\ ~D.disable_shallow_fetch
            /\ ~D.is_rolling_version
            /\ IsBranch => ~cfg["a"].fixed_commit /\ "commit" \notin D.yml

C6_Witness ==
    /\ IsTag /\ cfg["a"].fixed_commit /\ "commit" \in D.yml
    /\ Len(H) = 2
    /\ FirstFetch(H[1]) /\ PassedDepth(H[1])
    /\ IsFetch(H[2]) /\ H[2].dir /\ H[2].res = "OK" /\ PassedDepth(H[2])

\* C7: for a git source that is a rolling version, no fetch_repo call passes
\* --depth=1, on the first fetch or later, whatever the ref and the pin.
C7_RollingNeverShallow ==
    IsGit /\ D.is_rolling_version =>
        \A i \in 1..Len(H) : IsFetch(H[i]) => ~PassedDepth(H[i])

C7_Witness ==
    /\ IsGit /\ D.is_rolling_version /\ ~D.disable_shallow_fetch /\ ~Pinned
    /\ Len(H) = 2
    /\ FirstFetch(H[1]) /\ Fetches(H[1]) # {}
    /\ IsFetch(H[2]) /\ H[2].dir /\ H[2].res = "OK"

\* C8: for a git branch source with a fixed_commit in the pin record or a
\* commit in the descriptor, no fetch_repo call passes --depth=1.
C8_PinnedBranchNeverShallow ==
    IsBranch /\ Pinned =>
        \A i \in 1..Len(H) : IsFetch(H[i]) => ~PassedDepth(H[i])

C8_Witness ==
    /\ IsBranch /\ cfg["a"].fixed_commit /\ "commit" \notin D.yml
    /\ ~D.disable_shallow_fetch /\ ~D.is_rolling_version
    /\ Len(H) = 1
    /\ FirstFetch(H[1]) /\ Fetches(H[1]) # {}

\* C9: a git fetch for a branch is run with --depth=1 exactly when source_dir
\* was absent when the call started and shallow fetch is allowed (not
\* disabled, not a rolling version, no commit pinned); so never when
\* source_dir existed.
C9_BranchDepthOnlyOnInit ==
    IsBranch =>
        \A i \in 1..Len(H) :
            IsFetch(H[i]) /\ Fetches(H[i]) # {} =>
                /\ PassedDepth(H[i]) <=>
                       /\ ~H[i].dir
                       /\ ~D.disable_shallow_fetch
                       /\ ~D.is_rolling_version
                       /\ ~Pinned
                /\ H[i].dir => ~PassedDepth(H[i])

C9_Witness ==
    /\ PlainBranch
    /\ Len(H) = 2
    /\ FirstFetch(H[1]) /\ PassedDepth(H[1])
    /\ IsFetch(H[2]) /\ H[2].dir /\ Fetches(H[2]) # {} /\ ~PassedDepth(H[2])

\* C10: for a git branch source with no pin, a fetch_repo call that follows a
\* successful first fetch runs neither mkdir, git init nor git remote add;
\* and if it succeeds with the upstream unchanged, it leaves the tracking ref
\* at the commit the first fetch left it at.
C10_FetchIdempotent ==
    IsBranch /\ ~Pinned =>
        \A i \in 1..Len(H) :
            (i < Len(H) /\ FirstFetch(H[i]) /\ IsFetch(H[i + 1])) =>
                /\ ~Ran(H[i + 1], "mkdir")
                /\ ~Ran(H[i + 1], "git init")
                /\ ~Ran(H[i + 1], "git remote add origin")
                /\ (H[i + 1].res = "OK" /\ H[i + 1].up = H[i].up) =>
                       H[i + 1].ref = H[i].ref /\ H[i].ref = H[i].up

C10_Witness ==
    /\ IsBranch /\ ~Pinned
    /\ Len(H) = 2
    /\ FirstFetch(H[1])
    /\ IsFetch(H[2]) /\ H[2].res = "OK" /\ H[2].up = H[1].up
    /\ H[2].ref = H[1].ref /\ H[2].ref # 0
    /\ fs["a"].tracking = H[1].ref

\* The last command of a call: the git fetch, in a call that ran one.
FetchOf(e) == e.cmds[Len(e.cmds)]

\* C11: for a git tag source every git fetch is made from the URL with the
\* tag as refspec and has --depth=1 exactly when disable_shallow_fetch and
\* is_rolling_version are both false, on the first fetch and on later ones;
\* when source_dir was absent, mkdir, git init and git remote add come first.
C11_TagFetch ==
    IsTag =>
        \A i \in 1..Len(H) :
            IsFetch(H[i]) /\ Fetches(H[i]) # {} =>
                /\ Fetches(H[i]) = {Len(H[i].cmds)}
                /\ FetchOf(H[i]).from = "url"
                /\ FetchOf(H[i]).refspec = "tag"
                /\ FetchOf(H[i]).depth <=>
                       ~D.disable_shallow_fetch /\ ~D.is_rolling_version
                /\ H[i].cmds =
                       (IF H[i].dir THEN <<>>
                        ELSE <<Cmd("mkdir"), Cmd("git init"), Cmd("git remote add origin")>>)
                       \o <<FetchOf(H[i])>>

C11_Witness ==
    /\ IsTag /\ ~D.disable_shallow_fetch /\ ~D.is_rolling_version
    /\ Len(H) = 2
    /\ FirstFetch(H[1]) /\ Len(H[1].cmds) = 4 /\ PassedDepth(H[1])
    /\ IsFetch(H[2]) /\ H[2].dir /\ H[2].res = "OK" /\ PassedDepth(H[2])

\* C12: for an archive source check_repo returns GOOD when
\* source_archive_file exists and MISSING when it does not, at every level and
\* with no remote query; a successful fetch_repo leaves the complete body at
\* source_archive_file, whatever was there; and the check_repo after a
\* successful fetch returns GOOD.
C12_Archive ==
    Origin(D.yml) = "url" =>
        /\ \A l \in 0..2, ok \in BOOLEAN :
               check_repo("a", l, ok) =
                   Local(IF fs["a"].source_archive_file = "absent"
                         THEN "MISSING" ELSE "GOOD")
        /\ \A i \in 1..Len(H) :
               /\ IsEval(H[i]) => ~H[i].queried
               /\ (i = Len(H) /\ IsFetch(H[i]) /\ H[i].res = "OK") =>
                      fs["a"].source_archive_file = "full"
               /\ (i < Len(H) /\ IsFetch(H[i]) /\ H[i].res = "OK" /\ IsEval(H[i + 1])) =>
                      H[i + 1].res = "GOOD"
               /\ (IsEval(H[i]) /\ ~H[i].won /\ i = 1 /\ Len(H) = 1) => H[i].res = "MISSING"

C12_Witness ==
    /\ Origin(D.yml) = "url"
    /\ Len(H) = 3
    /\ IsEval(H[1]) /\ H[1].res = "MISSING" /\ ~H[1].dir
    /\ IsFetch(H[2]) /\ H[2].res = "OK"
    /\ IsEval(H[3]) /\ H[3].res = "GOOD"
    /\ fs["a"].source_archive_file = "full"

\* The tool of the origin of "a" is not on PATH.
NoTool == Origin(D.yml) \in Tools \ path

\* C13: for a git, hg or svn source whose tool is not on PATH, fetch_repo
\* raises an exception that is not the one of a failed subprocess, download or
\* mkdir, runs no command, and leaves the working copy as it was (absent).
C13_ToolMissing ==
    NoTool =>
        /\ fs["a"] = NoDir
        /\ call["p1"].pc = "idle"
        /\ \A i \in 1..Len(H) :
               IsFetch(H[i]) =>
                   /\ H[i].res \notin {"OK", "CalledProcessError", "URLError", "OSError"}
                   /\ H[i].cmds = <<>>

C13_Witness ==
    /\ NoTool
    /\ Origin(D.yml) = "hg"
    /\ Len(H) = 2
    /\ IsFetch(H[1]) /\ H[1].res = "NameError"
    /\ IsEval(H[2]) /\ H[2].res = "MISSING"

\* The shape invariant of a descriptor: exactly one origin key, and for a git
\* or hg origin exactly one of tag and branch.
WellShaped(y) ==
    /\ Cardinality(y \cap {"git", "hg", "svn", "url"}) = 1
    /\ y \cap {"git", "hg"} # {} => Cardinality(y \cap {"tag", "branch"}) = 1

\* C14: on a descriptor that breaks the shape invariant check_repo and
\* fetch_repo raise at once: every call ends in an exception, runs no command
\* and leaves the working copy untouched.
C14_ShapeFailsFast ==
    ~WellShaped(D.yml) =>
        /\ fs["a"] = NoDir
        /\ \A i \in 1..Len(H) :
               H[i].res \in {"KeyError", "AssertionError"} /\ H[i].cmds = <<>>

\* The call that a step completes on "a", if it completes one.
Completes == hist'["a"] # hist["a"]
Done == hist'["a"][Len(hist'["a"])]

\* C15: a step that completes a check_repo call changes nothing but the
\* record of calls: source_dir, source_archive_file, the repository and its
\* tracking ref, the descriptor, the pin and the upstream are as before.
C15_EvaluateReadOnly ==
    [][Completes /\ IsEval(Done) =>
           /\ fs' = fs
           /\ src' = src /\ cfg' = cfg /\ path' = path
           /\ upstream' = upstream]_vars

C15_Witness ==
    /\ IsGit
    /\ Len(H) = 3
    /\ FirstFetch(H[1])
    /\ IsEval(H[2]) /\ H[2].queried /\ H[2].res = "OUTDATED" /\ H[2].remote # 0
    /\ IsEval(H[3]) /\ H[3].queried /\ H[3].res = "OUTDATED" /\ H[3].ref = H[2].ref
    /\ fs["a"].tracking = H[1].ref

\* What exists on disk for a source stays: the directory, the repository in
\* it, its remote and tracking ref, the clone or checkout, the archive file.
Kept(f, g) ==
    /\ f.source_dir => g.source_dir
    /\ f.git_init => g.git_init
    /\ f.origin => g.origin
    /\ f.tracking # 0 => g.tracking # 0
    /\ f.content # "empty" => g.content # "empty"
    /\ f.source_archive_file # "absent" => g.source_archive_file # "absent"

\* C17: no step of check_repo or fetch_repo removes source_dir,
\* source_archive_file or anything a call created in them; this includes the
\* steps in which a fetch_repo call fails.
C17_NeverDeleted == [][Kept(fs["a"], fs'["a"])]_vars

C17_Witness ==
    /\ Len(H) = 2
    /\ IsFetch(H[1]) /\ H[1].res = "OSError"
    /\ IsFetch(H[2]) /\ ~H[2].dir /\ H[2].res = "CalledProcessError"
    /\ Ran(H[2], "git init") /\ ~Ran(H[2], "git remote add origin")
    /\ fs["a"].source_dir /\ ~fs["a"].git_init

\* What belongs to a source and to the caller working on it.
Own(s, p) == <<src[s], cfg[s], fs[s], upstream[s], hist[s], call[p]>>

OwnA == Own("a", "p1")
OwnB == Own("b", "p2")

\* C16: with two callers interleaved on sources with distinct source_dir and
\* source_archive_file, every step that touches a source or its caller is a
\* step of that caller's calls run alone, and leaves the other source as it
\* is: each source goes through the states, and each call gets the result, of
\* the calls on that source made one after another.
C16_DistinctSourcesIndependent ==
    /\ [][Step("p1", "a")]_OwnA
    /\ [][Step("p2", "b")]_OwnB

C16_Witness ==
    /\ call["p1"].pc = "transfer" /\ call["p1"].s = "a" /\ call["p1"].dir
    /\ call["p2"].pc = "transfer" /\ call["p2"].s = "b" /\ call["p2"].dir
    /\ Len(hist["a"]) = 1 /\ hist["a"][1].res = "OK"
    /\ Len(hist["b"]) = 1 /\ hist["b"][1].res # "OK"

\* The initialization steps, in the order fetch_repo runs them.
InitSteps == <<"mkdir", "git init", "git remote add origin">>
RanInitSteps(cmds) ==
    /\ Len(cmds) >= 3
    /\ \A i \in 1..3 : cmds[i].cmd = InitSteps[i]

\* Caller p has read source_dir as absent and has not created it yet.
Checked(p) == call[p].pc = "mkdir" /\ call[p].s = "a" /\ call[p].init /\ ~fs["a"].source_dir

\* C18: nothing locks source_dir.  While one fetch_repo call on the git source
\* is between its test of source_dir and the creation of the directory, a
\* second caller can enter fetch_repo on the same source and also gets
\* init = True; and a call that has init = True can go on with each of the
\* initialization steps (mkdir, git init, git remote add) whatever the other
\* call has done to the directory meanwhile.
C18_NoLockOnSourceDir ==
    \A p, q \in Procs :
        p # q =>
            /\ Checked(p) /\ call[q].pc = "idle"
                  => ENABLED (BeginFetch(q, "a") /\ call'[q].pc = "mkdir" /\ call'[q].init)
            /\ call[q].init /\ call[q].pc = "mkdir" => ENABLED TryMkdir(q, TRUE)
            /\ call[q].init /\ call[q].pc = "git_init" => ENABLED GitInit(q, TRUE)
            /\ call[q].init /\ call[q].pc = "remote_add"
                  => ENABLED (\E ok \in BOOLEAN : GitRemoteAdd(q, ok))

\* Both calls found source_dir absent, and both ran mkdir, git init and git
\* remote add in it: one has ended at the remote add, which git refused as
\* origin was there already, and the other is about to run git fetch.
C18_Witness ==
    \E p \in Procs :
        /\ call[p].pc = "transfer" /\ call[p].s = "a"
        /\ call[p].init /\ ~call[p].dir /\ RanInitSteps(call[p].cmds)
        /\ Len(H) = 1 /\ IsFetch(H[1]) /\ H[1].init /\ ~H[1].dir
        /\ RanInitSteps(H[1].cmds) /\ H[1].res = "CalledProcessError"
        /\ fs["a"].git_init /\ fs["a"].origin

\* The caller of the sequential specification makes a step of git init, or of
\* git remote add, that succeeds.
InitCompletes == call["p1"].pc = "git_init" /\ call'["p1"].pc = "remote_add"
RemoteAddCompletes == call["p1"].pc = "remote_add" /\ call'["p1"].pc = "transfer"

\* C19: over any sequence of fetch_repo calls on a git source, failed ones
\* included, a call runs git fetch only in a source_dir that holds an
\* initialized repository with the remote origin registered; and git init and
\* git remote add each succeed at most once in a source_dir.
C19_FetchOnlyInInitializedDir ==
    [][/\ Completes /\ IsFetch(Done) /\ Ran(Done, "git fetch")
             => fs["a"].git_init /\ fs["a"].origin
       /\ InitCompletes => ~fs["a"].git_init
       /\ RemoteAddCompletes => ~fs["a"].origin]_vars

\* C20 as stated: for every kind of origin, starting with no working copy, a
\* check_repo call made while no fetch_repo call has succeeded does not
\* return GOOD, at any level of remote checking.
C20_FailedFetchNeverGood ==
    \A i \in 1..Len(H) : IsEval(H[i]) /\ ~H[i].won => H[i].res # "GOOD"

\* C20, amended: starting with no working copy, a check_repo call made while
\* no fetch_repo call has succeeded returns MISSING for a git source, at any
\* level of remote checking; for a subversion source it returns GOOD exactly
\* when source_dir exists, and for an archive exactly when
\* source_archive_file exists, whatever a failed checkout or an interrupted
\* download left there; for a mercurial source it returns GOOD only if
\* source_dir exists.
C20_FailedFetchGit ==
    [][Completes /\ IsEval(Done) /\ ~Done.won =>
          LET o == Origin(D.yml)
          IN  /\ o = "git" => Done.res = "MISSING"
              /\ o = "svn" => (Done.res = "GOOD" <=> fs["a"].source_dir)
              /\ o = "url" => (Done.res = "GOOD"
                                  <=> fs["a"].source_archive_file # "absent")
              /\ o = "hg" /\ Done.res = "GOOD" => fs["a"].source_dir]_vars

\* A fetch_repo call on a git source created source_dir and the repository,
\* then failed at git fetch; the check_repo call after it, with a remote
\* check, returned MISSING.
C20_Witness ==
    /\ IsGit /\ Len(H) = 2
    /\ IsFetch(H[1]) /\ ~H[1].dir /\ H[1].res = "CalledProcessError"
    /\ Ran(H[1], "git fetch")
    /\ IsEval(H[2]) /\ H[2].dir /\ H[2].level = 2 /\ H[2].res = "MISSING"
    /\ fs["a"].git_init /\ fs["a"].origin

====
